---- MODULE Spec2Model ----
(***************************************************************************)
(* Model of the asynchronous 3D-generation job orchestration of            *)
(* model_generator/script_example/api_server.py: the bearer-token check,   *)
(* the in-memory status table request_status, the /generate and /status    *)
(* handlers, the background worker process_request with run_workflow, and  *)
(* the pipeline backend the worker talks to; and of generate_3d of         *)
(* backend/src/modeling.py, the client that submits one job and polls it.  *)
(*                                                                         *)
(* Python strings that the code takes apart (the VALID_TOKENS value, the   *)
(* bearer token, the base64 payload, file names) are sequences of          *)
(* one-character strings; strings the code only stores and compares        *)
(* (request ids, status names, messages) are TLA+ strings.                 *)
(***************************************************************************)
EXTENDS Integers, Sequences, FiniteSets, TLC

VARIABLES
    environ,         \* os.environ["VALID_TOKENS"]: a string, or Unset
    request_status,  \* the status table: request id -> status record
    tasks,           \* background tasks added by add_task, in order of scheduling
    tmp,             \* request ids whose directory /tmp/<id> exists (with input.png)
    backend,         \* pipeline backend: prompt id -> "queued" | "executing" | "finished"
    outdir,          \* listing of the output directory: sequence of [name, mtime]
    accepted,        \* history: <<id, image>> of the accepted submits, in order
    client,          \* one call of generate_3d in the web backend (modeling.py)
    UPLOAD_DIR,      \* web backend: names of the files in the upload directory
    db,              \* web backend: the Model3D rows, in order of creation
    endpoint         \* one request to POST /api/generate of the web backend (server.py)

vars == <<environ, request_status, tasks, tmp, backend, outdir, accepted, client,
          UPLOAD_DIR, db, endpoint>>

\* the state of the web backend outside generate_3d
webapp == <<UPLOAD_DIR, db, endpoint>>

\* Python's None where a string is expected, and where a character sequence is
None == "None"
NoneSeq == <<"None">>

\* VALID_TOKENS is not in the environment
Unset == <<"Unset">>

-----------------------------------------------------------------------------
(* Bounds of the model *)

\* accepted submits (= background tasks) per run
MaxTasks == 2
\* length of the VALID_TOKENS value in the token-check specification
MaxEnvLen == 3
\* length of the bearer token in the token-check specification
MaxTokenLen == 1
\* artifacts the pipeline backend writes per run
MaxFiles == 2
\* entries of the output directory in the artifact-search specification
MaxListing == 3
\* greatest modification time in the artifact-search specification
MaxMTime == 2
\* length of the image payload in the payload-decoding specification
MaxImageLen == 4

-----------------------------------------------------------------------------
(* Inputs *)

\* request ids a client may send; "" is the empty id
Ids == {"", "r1", "r2"}

\* bearer credentials handed to validate_token by Depends(security)
Tokens == {<<"a">>, <<"c">>}

\* values of VALID_TOKENS the server is started with
EnvValues == {Unset, <<"a", ",", "b">>}

\* base64 payloads: "QQ==" (decodes to one byte) and "QQ" (incorrect padding)
Images == {<<"Q", "Q", "=", "=">>, <<"Q", "Q">>}

RECURSIVE SeqsUpTo(_, _)
SeqsUpTo(S, n) ==
    IF n = 0 THEN {<<>>}
    ELSE LET shorter == SeqsUpTo(S, n - 1)
         IN  shorter \cup {Append(s, c) : s \in {t \in shorter : Len(t) = n - 1}, c \in S}

-----------------------------------------------------------------------------
(* Configuration and authentication *)

\* str.split(","): the pieces between the commas; "" splits into [""]
RECURSIVE split(_)
split(s) ==
    IF \A i \in 1..Len(s) : s[i] # ","
    THEN <<s>>
    ELSE LET i == CHOOSE k \in 1..Len(s) :
                      s[k] = "," /\ \A j \in 1..(k - 1) : s[j] # ","
         IN  <<SubSeq(s, 1, i - 1)>> \o split(SubSeq(s, i + 1, Len(s)))

\* os.environ.get("VALID_TOKENS", "")
environ_get(e) == IF e = Unset THEN <<>> ELSE e

ParseTokens(e) ==
    LET pieces == split(environ_get(e)) IN {pieces[i] : i \in 1..Len(pieces)}

VALID_TOKENS == ParseTokens(environ)

\* validate_token: TRUE when the token is returned, FALSE when 401 is raised
validate_token(valid, token) == ~(valid = {} \/ token \notin valid)

-----------------------------------------------------------------------------
(* Responses *)

GenerationResponse(st, msg, url, id) ==
    [code |-> 200, detail |-> None, status |-> st, message |-> msg,
     model_url |-> url, request_id |-> id]

HTTPException(code, detail) ==
    [code |-> code, detail |-> detail, status |-> None, message |-> None,
     model_url |-> NoneSeq, request_id |-> None]

\* a step of a worker or of the backend: outside the request/response cycle
Internal == UNCHANGED <<environ, accepted, client, webapp>>

-----------------------------------------------------------------------------
(* Status table *)

StatusRecord(st, msg, url) == [status |-> st, message |-> msg, model_url |-> url]

QueuedRecord == StatusRecord("queued", "Your request has been queued", NoneSeq)

\* request_status[id] = rec
SetStatus(table, id, rec) ==
    [x \in (DOMAIN table) \cup {id} |-> IF x = id THEN rec ELSE table[x]]

Task(id, image) ==
    [request_id |-> id, image_data |-> image, pc |-> "scheduled",
     ws |-> FALSE, model_relative_path |-> NoneSeq, exc |-> None]

-----------------------------------------------------------------------------
(* POST /generate *)

Unauthorized == HTTPException(401, "Invalid authentication token")

\* mutant: the id is checked before the token
generate_response_IdFirst(valid, token, id) ==
    IF id = "" THEN HTTPException(400, "Request ID is required")
    ELSE IF ~validate_token(valid, token) THEN Unauthorized
    ELSE GenerationResponse("queued", "Your request has been queued for processing",
                            NoneSeq, id)

\* mutant: the id is not checked
generate_response_NoIdCheck(valid, token, id) ==
    IF ~validate_token(valid, token) THEN Unauthorized
    ELSE GenerationResponse("queued", "Your request has been queued for processing",
                            NoneSeq, id)

\* mutant: the acknowledgement says 'processing'
generate_response_Processing(valid, token, id) ==
    IF ~validate_token(valid, token) THEN Unauthorized
    ELSE IF id = "" THEN HTTPException(400, "Request ID is required")
    ELSE GenerationResponse("processing", "Your request is being processed", NoneSeq, id)

\* the response of generate_model; the request is accepted when it is a 200
generate_response(valid, token, id) ==
    IF ~validate_token(valid, token) THEN Unauthorized
    ELSE IF id = "" THEN HTTPException(400, "Request ID is required")
    ELSE GenerationResponse("queued", "Your request has been queued for processing",
                            NoneSeq, id)

\* mutant: the record is left to the worker to create
InitializeStatus_Skipped(table, id) == table

\* mutant: the table is replaced by one that holds only the new record
InitializeStatus_Fresh(table, id) == SetStatus(<<>>, id, QueuedRecord)

\* lines 286-291
InitializeStatus(table, id) == SetStatus(table, id, QueuedRecord)

\* mutant: the task is added twice
add_task_Twice(ts, id, image) == Append(Append(ts, Task(id, image)), Task(id, image))

add_task(ts, id, image) == Append(ts, Task(id, image))

\* mutant: the record is written before the token and the id are checked
generate_model_WritesFirst(token, id, image) ==
    LET r == generate_response(VALID_TOKENS, token, id) IN
    /\ Len(tasks) < MaxTasks
    /\ request_status' = InitializeStatus(request_status, id)
    /\ IF r.code = 200
       THEN /\ tasks' = add_task(tasks, id, image)
            /\ accepted' = Append(accepted, <<id, image>>)
       ELSE UNCHANGED <<tasks, accepted>>
    /\ UNCHANGED <<environ, tmp, backend, outdir, client, webapp>>

generate_model(token, id, image) ==
    LET r == generate_response(VALID_TOKENS, token, id) IN
    /\ IF r.code = 200
       THEN /\ Len(tasks) < MaxTasks
            /\ request_status' = InitializeStatus(request_status, id)
            /\ tasks' = add_task(tasks, id, image)
            /\ accepted' = Append(accepted, <<id, image>>)
       ELSE UNCHANGED <<request_status, tasks, accepted>>
    /\ UNCHANGED <<environ, tmp, backend, outdir, client, webapp>>

-----------------------------------------------------------------------------
(* GET /status/{request_id} *)

\* mutant: an unknown id is reported as still processing
status_response_Lenient(valid, table, token, id) ==
    IF ~validate_token(valid, token) THEN Unauthorized
    ELSE IF id \notin DOMAIN table
         THEN GenerationResponse("processing", "Your request is being processed",
                                 NoneSeq, id)
    ELSE GenerationResponse(table[id].status, table[id].message,
                            table[id].model_url, id)

\* mutant: the model_url of the record is not copied into the response
status_response_NoUrl(valid, table, token, id) ==
    IF ~validate_token(valid, token) THEN Unauthorized
    ELSE IF id \notin DOMAIN table THEN HTTPException(404, "Request ID " \o id \o " not found")
    ELSE GenerationResponse(table[id].status, table[id].message, NoneSeq, id)

status_response(valid, table, token, id) ==
    IF ~validate_token(valid, token) THEN Unauthorized
    ELSE IF id \notin DOMAIN table THEN HTTPException(404, "Request ID " \o id \o " not found")
    ELSE GenerationResponse(table[id].status, table[id].message,
                            table[id].model_url, id)

\* mutant: a poll of an unknown id creates a 'processing' record for it
get_status_Creates(token, id) ==
    /\ request_status' = IF id \in DOMAIN request_status THEN request_status
                         ELSE SetStatus(request_status, id,
                                        StatusRecord("processing",
                                                     "Your request is being processed", NoneSeq))
    /\ UNCHANGED <<environ, tasks, tmp, backend, outdir, accepted, client, webapp>>

\* the handler builds its response from the table and writes nothing
get_status(token, id) ==
    /\ status_response(VALID_TOKENS, request_status, token, id).code \in {200, 401, 404}
    /\ UNCHANGED <<environ, request_status, tasks, tmp, backend, outdir, accepted, client, webapp>>

-----------------------------------------------------------------------------
(* Background worker: process_request and run_workflow *)

Base64Alphabet == {"Q", "A", "B"}

\* binascii.a2b_base64 (non-strict), as used by base64.b64decode: characters
\* outside the alphabet are skipped, a completed pad sequence ends the parse,
\* and the input is rejected when it ends inside a quad.  TRUE = decoded.
RECURSIVE a2b_base64(_, _, _, _)
a2b_base64(s, i, quad_pos, pads) ==
    IF i > Len(s) THEN quad_pos = 0
    ELSE IF s[i] = "="
         THEN IF quad_pos >= 2
              THEN IF quad_pos + pads + 1 >= 4 THEN TRUE
                   ELSE a2b_base64(s, i + 1, quad_pos, pads + 1)
              ELSE a2b_base64(s, i + 1, quad_pos, pads)
    ELSE IF s[i] \notin Base64Alphabet THEN a2b_base64(s, i + 1, quad_pos, pads)
    ELSE a2b_base64(s, i + 1, (quad_pos + 1) % 4, 0)

b64decode(s) == a2b_base64(s, 1, 0, 0)

ErrorRecord(e) == StatusRecord("error", "Failed to generate model: " \o e, NoneSeq)

\* mutant: the exception is swallowed without a record
Fail_Swallowed(i, e) ==
    /\ UNCHANGED request_status
    /\ tasks' = [tasks EXCEPT ![i].pc = "done", ![i].ws = FALSE, ![i].exc = e]

\* mutant: the failure of one task is written to every record and ends every task
Fail_Propagates(i, e) ==
    /\ request_status' = [x \in DOMAIN request_status |-> ErrorRecord(e)]
    /\ tasks' = [j \in DOMAIN tasks |->
                    [tasks[j] EXCEPT !.pc = "done", !.ws = FALSE, !.exc = e]]

\* the except clause of process_request: the exception e is caught, the error
\* record is written and the task ends (the finally of the completion wait
\* has closed the socket)
Fail(i, e) ==
    /\ request_status' = SetStatus(request_status, tasks[i].request_id, ErrorRecord(e))
    /\ tasks' = [tasks EXCEPT ![i].pc = "done", ![i].ws = FALSE, ![i].exc = e]

Goto(i, pc) == tasks' = [tasks EXCEPT ![i].pc = pc]

At(i, pc) == i \in 1..Len(tasks) /\ tasks[i].pc = pc

ProcessingRecord == StatusRecord("processing", "Your request is being processed", NoneSeq)

\* lines 229-233: the task starts and marks the record
Start(i) ==
    /\ At(i, "scheduled")
    /\ Internal
    /\ request_status' = SetStatus(request_status, tasks[i].request_id, ProcessingRecord)
    /\ Goto(i, "decode")
    /\ UNCHANGED <<tmp, backend, outdir>>

\* line 236
Decode(i) ==
    /\ At(i, "decode")
    /\ Internal
    /\ IF b64decode(tasks[i].image_data)
       THEN Goto(i, "stage") /\ UNCHANGED request_status
       ELSE Fail(i, "Incorrect padding")
    /\ UNCHANGED <<tmp, backend, outdir>>

\* mutant: the staged image is queued without being uploaded
Stage_SkipsUpload(i) ==
    /\ At(i, "stage")
    /\ Internal
    /\ tmp' = tmp \cup {tasks[i].request_id}
    /\ Goto(i, "queue")
    /\ UNCHANGED <<request_status, backend, outdir>>

\* lines 239-243: makedirs(exist_ok=True) and the write of input.png
Stage(i) ==
    /\ At(i, "stage")
    /\ Internal
    /\ \/ /\ tmp' = tmp \cup {tasks[i].request_id}
          /\ Goto(i, "upload")
          /\ UNCHANGED request_status
       \/ /\ Fail(i, "OSError")
          /\ UNCHANGED tmp
    /\ UNCHANGED <<backend, outdir>>

\* lines 137-140 and upload_file: the staged image is uploaded (workflow.json
\* is deployed beside the script and holds the image node "2")
Upload(i) ==
    /\ At(i, "upload")
    /\ Internal
    /\ IF tasks[i].request_id \notin tmp
       THEN Fail(i, "Input file not found")
       ELSE \/ Goto(i, "queue") /\ UNCHANGED request_status
            \/ Fail(i, "Failed to upload image to ComfyUI")
    /\ UNCHANGED <<tmp, backend, outdir>>

\* lines 156-158 and queue_prompt: the prompt id is fresh (the task's index)
Queue(i) ==
    /\ At(i, "queue")
    /\ Internal
    /\ \/ /\ backend' = SetStatus(backend, i, "queued")
          /\ Goto(i, "connect")
          /\ UNCHANGED request_status
       \/ /\ Fail(i, "ComfyUI server is not available")
          /\ UNCHANGED backend
    /\ UNCHANGED <<tmp, outdir>>

\* lines 161-162
Connect(i) ==
    /\ At(i, "connect")
    /\ Internal
    /\ \/ /\ tasks' = [tasks EXCEPT ![i].pc = "recv", ![i].ws = TRUE]
          /\ UNCHANGED request_status
       \/ Fail(i, "Connection refused")
    /\ UNCHANGED <<tmp, backend, outdir>>

\* line 166: ws.recv() raises when the connection is lost
RecvError(i) ==
    /\ At(i, "recv")
    /\ Internal
    /\ Fail(i, "Connection is already closed")
    /\ UNCHANGED <<tmp, backend, outdir>>

\* line 178
Settle(i) ==
    /\ At(i, "settle")
    /\ Internal
    /\ Goto(i, "locate")
    /\ UNCHANGED <<request_status, tmp, backend, outdir>>

\* lines 181-190: the prefix of the SaveGLB node of workflow.json, no subfolder
base_prefix == <<"m">>

glb == <<".", "g", "l", "b">>

startswith(s, prefix) ==
    Len(s) >= Len(prefix) /\ SubSeq(s, 1, Len(prefix)) = prefix

endswith(s, suffix) ==
    Len(s) >= Len(suffix) /\ SubSeq(s, Len(s) - Len(suffix) + 1, Len(s)) = suffix

\* lines 203-211: the newest matching file, in the order of the listing
RECURSIVE scan_listing(_, _, _, _, _)
scan_listing(listing, prefix, i, latest_file, latest_time) ==
    IF i > Len(listing) THEN latest_file
    ELSE IF /\ startswith(listing[i].name, prefix)
            /\ endswith(listing[i].name, glb)
            /\ listing[i].mtime > latest_time
         THEN scan_listing(listing, prefix, i + 1, listing[i].name, listing[i].mtime)
         ELSE scan_listing(listing, prefix, i + 1, latest_file, latest_time)

\* mutant: the first entry of the listing is taken, whatever its name
find_latest_FirstEntry(listing, prefix) ==
    IF listing = <<>> THEN NoneSeq ELSE listing[1].name

find_latest(listing, prefix) == scan_listing(listing, prefix, 1, NoneSeq, 0)

\* lines 192-222: the search of the output directory, which exists once the
\* backend has written into it
Locate(i) ==
    /\ At(i, "locate")
    /\ Internal
    /\ LET latest_file == find_latest(outdir, base_prefix) IN
       IF outdir = <<>>
       THEN \/ Fail(i, "Output directory not found")
            \/ Fail(i, "Failed to generate 3D model")
       ELSE IF latest_file = NoneSeq
            THEN Fail(i, "Failed to generate 3D model")
            ELSE /\ tasks' = [tasks EXCEPT ![i].pc = "complete",
                                           ![i].model_relative_path = latest_file]
                 /\ UNCHANGED request_status
    /\ UNCHANGED <<tmp, backend, outdir>>

static == <<"/", "s", "t", "a", "t", "i", "c", "/">>

\* mutant: the completed record carries no model_url
CompletedRecord_NoUrl(model_relative_path) ==
    StatusRecord("completed", "Your 3D model is ready", NoneSeq)

CompletedRecord(model_relative_path) ==
    StatusRecord("completed", "Your 3D model is ready", static \o model_relative_path)

\* mutant: the temp directory is removed before the status update
Complete_RemovesFirst(i) ==
    /\ At(i, "complete")
    /\ Internal
    /\ tmp' = tmp \ {tasks[i].request_id}
    /\ request_status' = SetStatus(request_status, tasks[i].request_id,
                                   CompletedRecord(tasks[i].model_relative_path))
    /\ Goto(i, "cleanup")
    /\ UNCHANGED <<backend, outdir>>

\* lines 249-254
Complete(i) ==
    /\ At(i, "complete")
    /\ Internal
    /\ request_status' = SetStatus(request_status, tasks[i].request_id,
                                   CompletedRecord(tasks[i].model_relative_path))
    /\ Goto(i, "cleanup")
    /\ UNCHANGED <<tmp, backend, outdir>>

\* line 261: shutil.rmtree(temp_dir), inside the try block
Cleanup(i) ==
    /\ At(i, "cleanup")
    /\ Internal
    /\ IF tasks[i].request_id \notin tmp
       THEN Fail(i, "No such file or directory") /\ UNCHANGED tmp
       ELSE \/ /\ tmp' = tmp \ {tasks[i].request_id}
               /\ Goto(i, "done")
               /\ UNCHANGED request_status
            \/ /\ Fail(i, "OSError")
               /\ UNCHANGED tmp
    /\ UNCHANGED <<backend, outdir>>

-----------------------------------------------------------------------------
(* Pipeline backend and its push channel *)

Event(type, node, prompt_id) ==
    [type |-> type, data |-> [node |-> node, prompt_id |-> prompt_id]]

\* mutant: the prompt id of the event is not compared
is_finished_AnyPrompt(message, prompt_id) ==
    /\ message.type = "executing"
    /\ message.data.node = None

\* lines 169-173: the test that ends the completion wait
is_finished(message, prompt_id) ==
    /\ message.type = "executing"
    /\ message.data.node = None
    /\ message.data.prompt_id = prompt_id

\* lines 165-175: one message read by the task with this prompt id
recv(task, prompt_id, message) ==
    IF task.pc = "recv" /\ task.ws /\ is_finished(message, prompt_id)
    THEN [task EXCEPT !.pc = "settle", !.ws = FALSE]
    ELSE task

\* the backend sends the message to every socket connected with CLIENT_ID
Emit(message) == tasks' = [j \in DOMAIN tasks |-> recv(tasks[j], j, message)]

Digits == <<"1", "2", "3", "4", "5", "6", "7", "8", "9">>

Artifact(n) == base_prefix \o <<Digits[n]>> \o glb

Execute(p) ==
    /\ p \in DOMAIN backend /\ backend[p] = "queued"
    /\ Internal
    /\ backend' = [backend EXCEPT ![p] = "executing"]
    /\ Emit(Event("executing", "7", p))
    /\ UNCHANGED <<request_status, tmp, outdir>>

Save(p) ==
    /\ p \in DOMAIN backend /\ backend[p] = "executing"
    /\ Internal
    /\ Len(outdir) < MaxFiles
    /\ backend' = [backend EXCEPT ![p] = "saved"]
    /\ outdir' = Append(outdir, [name |-> Artifact(Len(outdir) + 1),
                                 mtime |-> Len(outdir) + 1])
    /\ UNCHANGED <<request_status, tasks, tmp>>

Finish(p) ==
    /\ p \in DOMAIN backend /\ backend[p] \in {"executing", "saved"}
    /\ Internal
    /\ backend' = [backend EXCEPT ![p] = "finished"]
    /\ Emit(Event("executing", None, p))
    /\ UNCHANGED <<request_status, tmp, outdir>>

-----------------------------------------------------------------------------
(* The web backend's client: generate_3d of backend/src/modeling.py *)

\* for _ in range(max_retries)
max_retries == 60

\* MODEL_GENERATOR_TOKEN, the bearer token the client sends
MODEL_GENERATOR_TOKEN == <<"a">>

\* a call of generate_3d: where it is, the uuid it drew, the status polls it
\* has issued, what the last poll observed, what the polls so far observed,
\* and what it returned or raised
Call(pc) ==
    [pc |-> pc, request_id |-> "r1", polls |-> 0, observed |-> None, seen |-> {},
     model_url |-> NoneSeq, exc |-> None]

\* no call is in progress
NoCall == Call("idle")

\* httpx.HTTPError without a response: the connection failed or timed out
ConnectError == HTTPException(0, "ConnectError")

output == <<"/", "o", "u", "t", "p", "u", "t", "/">>

\* model_url.replace("/static/", "/output/", 1) if it starts with "/static/"
to_output(model_url) ==
    IF model_url # NoneSeq /\ startswith(model_url, static)
    THEN output \o SubSeq(model_url, Len(static) + 1, Len(model_url))
    ELSE model_url

\* lines 254-267: POST /generate with the image and a fresh uuid;
\* raise_for_status and a failed connection re-raise httpx.HTTPError
Submit3d ==
    /\ client.pc = "submit"
    /\ \E r \in {generate_response(VALID_TOKENS, MODEL_GENERATOR_TOKEN, client.request_id),
                 ConnectError} :
          IF r.code = 200
          THEN /\ request_status' = InitializeStatus(request_status, client.request_id)
               /\ tasks' = add_task(tasks, client.request_id, <<"Q", "Q", "=", "=">>)
               /\ accepted' = Append(accepted, <<client.request_id, <<"Q", "Q", "=", "=">>>>)
               /\ client' = [client EXCEPT !.pc = "poll"]
          ELSE /\ client' = [client EXCEPT !.pc = "raised", !.exc = "HTTPError"]
               /\ UNCHANGED <<request_status, tasks, accepted>>
    /\ UNCHANGED <<environ, tmp, backend, outdir, webapp>>

\* a poll was issued and observed o
polled(c, o) == [c EXCEPT !.polls = @ + 1, !.observed = o, !.seen = @ \cup {o}]

\* mutant: a poll that observes 'error' is treated like a failed poll
after_poll_ErrorContinues(c, r) ==
    IF r.code # 200 THEN polled(c, "HTTPError")
    ELSE IF r.status = "completed"
    THEN [polled(c, "completed") EXCEPT !.pc = "returned",
                                        !.model_url = to_output(r.model_url)]
    ELSE polled(c, r.status)

\* mutant: a failed poll is not caught
after_poll_AbortsOnHTTPError(c, r) ==
    IF r.code # 200
    THEN [polled(c, "HTTPError") EXCEPT !.pc = "raised", !.exc = "HTTPError"]
    ELSE IF r.status = "completed"
    THEN [polled(c, "completed") EXCEPT !.pc = "returned",
                                        !.model_url = to_output(r.model_url)]
    ELSE IF r.status = "error"
    THEN [polled(c, "error") EXCEPT !.pc = "raised",
                                    !.exc = "Generation failed: " \o r.message]
    ELSE polled(c, r.status)

\* lines 274-297: the body of the loop after the response r of the GET;
\* raise_for_status turns a response that is not a 2xx into an HTTPError
after_poll(c, r) ==
    IF r.code # 200 THEN polled(c, "HTTPError")
    ELSE IF r.status = "completed"
    THEN [polled(c, "completed") EXCEPT !.pc = "returned",
                                        !.model_url = to_output(r.model_url)]
    ELSE IF r.status = "error"
    THEN [polled(c, "error") EXCEPT !.pc = "raised",
                                    !.exc = "Generation failed: " \o r.message]
    ELSE polled(c, r.status)

\* mutant: the poll asks for any id the server knows
Poll3d_AnyId ==
    /\ client.pc = "poll" /\ client.polls < max_retries
    /\ \E id \in DOMAIN request_status \cup {client.request_id} :
          client' = after_poll(client, status_response(VALID_TOKENS, request_status,
                                                       MODEL_GENERATOR_TOKEN, id))
    /\ UNCHANGED <<environ, request_status, tasks, tmp, backend, outdir, accepted, webapp>>

\* lines 271-297: one turn of the loop: sleep, GET /status/{request_id}
Poll3d ==
    /\ client.pc = "poll" /\ client.polls < max_retries
    /\ \E r \in {status_response(VALID_TOKENS, request_status,
                                 MODEL_GENERATOR_TOKEN, client.request_id),
                 ConnectError} :
          client' = after_poll(client, r)
    /\ UNCHANGED <<environ, request_status, tasks, tmp, backend, outdir, accepted, webapp>>

\* line 299: the loop is exhausted
Timeout3d ==
    /\ client.pc = "poll" /\ client.polls = max_retries
    /\ client' = [client EXCEPT !.pc = "raised", !.exc = "TimeoutError"]
    /\ UNCHANGED <<environ, request_status, tasks, tmp, backend, outdir, accepted, webapp>>

-----------------------------------------------------------------------------
(* POST /api/generate of the web backend, server.py *)

\* the endpoint's request: where the handler is, the path it saved the upload
\* under, and the response it gave
Request(pc, file_path, response) ==
    [pc |-> pc, file_path |-> file_path, response |-> response]

\* no response yet
NoResponse == HTTPException(0, None)

\* the web backend before any request to /api/generate
NoRequest ==
    /\ UPLOAD_DIR = {}
    /\ db = <<>>
    /\ endpoint = Request("idle", None, NoResponse)

\* line 364: f"{uuid.uuid4()}{file_ext}"
file_name == "u1.png"

\* lines 377-385, 350-352: create_model's row, returned with status 201
Model3D(reference_image_path, generated_3d_path) ==
    [reference_image_path |-> reference_image_path,
     generated_3d_path |-> generated_3d_path]

Created(model_url) == [HTTPException(201, None) EXCEPT !.model_url = model_url]

\* lines 355-370 and modeling.py 245-252: the upload is saved under a fresh
\* name and generate_3d is called with its path
generate_model_endpoint ==
    /\ endpoint.pc = "idle"
    /\ client.pc = "idle"
    /\ UPLOAD_DIR' = UPLOAD_DIR \cup {file_name}
    /\ endpoint' = Request("generating", file_name, NoResponse)
    /\ client' = Call("submit")
    /\ UNCHANGED <<environ, request_status, tasks, tmp, backend, outdir, accepted, db>>

\* mutant: the uploaded file is left in place when generate_3d raises
Respond_KeepsFile ==
    /\ endpoint.pc = "generating"
    /\ client.pc \in {"returned", "raised"}
    /\ IF client.pc = "raised"
       THEN /\ endpoint' = [endpoint EXCEPT !.pc = "done",
                                            !.response = HTTPException(500, client.exc)]
            /\ UNCHANGED <<UPLOAD_DIR, db>>
       ELSE /\ db' = Append(db, Model3D(endpoint.file_path, client.model_url))
            /\ endpoint' = [endpoint EXCEPT !.pc = "done",
                                            !.response = Created(client.model_url)]
            /\ UNCHANGED UPLOAD_DIR
    /\ UNCHANGED <<environ, request_status, tasks, tmp, backend, outdir, accepted, client>>

\* lines 370-386: generate_3d has raised: the uploaded file is removed and the
\* response is 500 with str(e); it has returned: create_model adds the row
Respond ==
    /\ endpoint.pc = "generating"
    /\ client.pc \in {"returned", "raised"}
    /\ IF client.pc = "raised"
       THEN /\ UPLOAD_DIR' = UPLOAD_DIR \ {endpoint.file_path}
            /\ endpoint' = [endpoint EXCEPT !.pc = "done",
                                            !.response = HTTPException(500, client.exc)]
            /\ UNCHANGED db
       ELSE /\ db' = Append(db, Model3D(endpoint.file_path, client.model_url))
            /\ endpoint' = [endpoint EXCEPT !.pc = "done",
                                            !.response = Created(client.model_url)]
            /\ UNCHANGED UPLOAD_DIR
    /\ UNCHANGED <<environ, request_status, tasks, tmp, backend, outdir, accepted, client>>

-----------------------------------------------------------------------------

Init ==
    /\ environ \in EnvValues
    /\ request_status = <<>>
    /\ tasks = <<>>
    /\ tmp = {}
    /\ backend = <<>>
    /\ outdir = <<>>
    /\ accepted = <<>>
    /\ client = NoCall
    /\ NoRequest

Next ==
    \/ \E token \in Tokens, id \in Ids, image \in Images : generate_model(token, id, image)
    \/ \E token \in Tokens, id \in Ids : get_status(token, id)
    \/ \E i \in 1..MaxTasks :
          \/ Start(i) \/ Decode(i) \/ Stage(i) \/ Upload(i) \/ Queue(i) \/ Connect(i)
          \/ RecvError(i) \/ Settle(i) \/ Locate(i) \/ Complete(i) \/ Cleanup(i)
    \/ \E p \in 1..MaxTasks : Execute(p) \/ Save(p) \/ Finish(p)

Spec == Init /\ [][Next]_vars

\* Fair scheduling: a thread of the pool that can take its next statement
\* takes it, and the backend executes and finishes every prompt it accepted.
\* Nothing obliges a client to submit or poll, the backend to save a file, or
\* the push channel to break (RecvError).
Fairness ==
    /\ \A i \in 1..MaxTasks :
          /\ WF_vars(Start(i)) /\ WF_vars(Decode(i)) /\ WF_vars(Stage(i))
          /\ WF_vars(Upload(i)) /\ WF_vars(Queue(i)) /\ WF_vars(Connect(i))
          /\ WF_vars(Settle(i)) /\ WF_vars(Locate(i)) /\ WF_vars(Complete(i))
          /\ WF_vars(Cleanup(i))
    /\ \A p \in 1..MaxTasks : WF_vars(Execute(p)) /\ WF_vars(Finish(p))

SpecFair == Init /\ [][Next]_vars /\ Fairness

-----------------------------------------------------------------------------
(* One call of generate_3d against the server: the client submits its job  *)
(* and polls while the worker and the pipeline backend run.  Every await   *)
(* of the client returns (the requests carry timeouts of 30 s and 10 s).   *)

\* the server as it is after another client's job r2 has completed
AfterJob ==
    /\ environ = <<"a", ",", "b">>
    /\ request_status = SetStatus(<<>>, "r2", CompletedRecord(Artifact(1)))
    /\ tasks = <<[Task("r2", <<"Q", "Q", "=", "=">>) EXCEPT
                    !.pc = "done", !.model_relative_path = Artifact(1)]>>
    /\ tmp = {}
    /\ backend = <<"finished">>
    /\ outdir = <<[name |-> Artifact(1), mtime |-> 1]>>
    /\ accepted = <<<<"r2", <<"Q", "Q", "=", "=">>>>>>

InitClient ==
    /\ client = Call("submit")
    /\ NoRequest
    /\ \/ /\ environ \in EnvValues
          /\ request_status = <<>>
          /\ tasks = <<>>
          /\ tmp = {}
          /\ backend = <<>>
          /\ outdir = <<>>
          /\ accepted = <<>>
       \/ AfterJob

NextClient ==
    \/ Submit3d \/ Poll3d \/ Timeout3d
    \/ \E i \in 1..MaxTasks :
          \/ Start(i) \/ Decode(i) \/ Stage(i) \/ Upload(i) \/ Queue(i) \/ Connect(i)
          \/ RecvError(i) \/ Settle(i) \/ Locate(i) \/ Complete(i) \/ Cleanup(i)
    \/ \E p \in 1..MaxTasks : Execute(p) \/ Save(p) \/ Finish(p)

SpecClient ==
    /\ InitClient /\ [][NextClient]_vars
    /\ WF_vars(Submit3d) /\ WF_vars(Poll3d) /\ WF_vars(Timeout3d)

\* a request to /api/generate of the web backend, against the generator
\* service as it is after construction or after another client's job
InitEndpoint ==
    /\ client = NoCall
    /\ NoRequest
    /\ \/ /\ environ \in EnvValues
          /\ request_status = <<>>
          /\ tasks = <<>>
          /\ tmp = {}
          /\ backend = <<>>
          /\ outdir = <<>>
          /\ accepted = <<>>
       \/ AfterJob

NextEndpoint ==
    \/ generate_model_endpoint
    \/ Respond
    \/ NextClient

SpecEndpoint == InitEndpoint /\ [][NextEndpoint]_vars

-----------------------------------------------------------------------------
(* The token check on its own: every VALID_TOKENS value up to MaxEnvLen    *)
(* characters and every bearer token up to MaxTokenLen characters, the     *)
(* empty token included, presented to the two handlers.                    *)

EnvAlphabet == {"a", ","}

TokenAlphabet == {"a", "b"}

InitAuth ==
    /\ environ \in {Unset} \cup SeqsUpTo(EnvAlphabet, MaxEnvLen)
    /\ request_status = <<>>
    /\ tasks = <<>>
    /\ tmp = {}
    /\ backend = <<>>
    /\ outdir = <<>>
    /\ accepted = <<>>
    /\ client = NoCall
    /\ NoRequest

NextAuth ==
    \/ \E token \in SeqsUpTo(TokenAlphabet, MaxTokenLen), id \in Ids, image \in Images :
          generate_model(token, id, image)
    \/ \E token \in SeqsUpTo(TokenAlphabet, MaxTokenLen), id \in Ids : get_status(token, id)

SpecAuth == InitAuth /\ [][NextAuth]_vars

-----------------------------------------------------------------------------
(* The artifact search on its own: a worker that has received its sentinel *)
(* and slept, in front of every content of the output directory of up to   *)
(* MaxListing entries, in every order os.listdir can enumerate them.       *)

\* file names: two with the prefix and ".glb", one with another prefix, one
\* with another suffix
FileNames ==
    {Artifact(1), Artifact(2), <<"x", "1">> \o glb, base_prefix \o <<"1", ".", "p", "n", "g">>}

\* os.path.getmtime: seconds since the epoch, 0 for a file dated at the epoch
MTimes == 0..MaxMTime

\* os.listdir: the entries of a directory, each name once, in arbitrary order
Listings ==
    {l \in SeqsUpTo([name : FileNames, mtime : MTimes], MaxListing) :
        \A a, b \in 1..Len(l) : a # b => l[a].name # l[b].name}

InitLocate ==
    /\ environ = <<"a">>
    /\ request_status = SetStatus(<<>>, "r1", ProcessingRecord)
    /\ tasks = <<[Task("r1", <<"Q", "Q", "=", "=">>) EXCEPT !.pc = "locate"]>>
    /\ tmp = {"r1"}
    /\ backend = <<"finished">>
    /\ outdir \in Listings
    /\ accepted = <<<<"r1", <<"Q", "Q", "=", "=">>>>>>
    /\ client = NoCall
    /\ NoRequest

NextLocate == \E i \in 1..MaxTasks : Locate(i) \/ Complete(i) \/ Cleanup(i)

SpecLocate == InitLocate /\ [][NextLocate]_vars

-----------------------------------------------------------------------------
(* The decoding of the payload on its own: one accepted submit for every   *)
(* image string of up to MaxImageLen characters, and the worker and the    *)
(* pipeline backend that serve it.                                         *)

\* a character of the base64 alphabet, the pad, and a character outside both
PayloadAlphabet == {"Q", "=", "!"}

\* GenerationRequest.image: any string
Payloads == SeqsUpTo(PayloadAlphabet, MaxImageLen)

InitDecode ==
    /\ environ = <<"a">>
    /\ request_status = InitializeStatus(<<>>, "r1")
    /\ \E image \in Payloads :
          /\ tasks = add_task(<<>>, "r1", image)
          /\ accepted = <<<<"r1", image>>>>
    /\ tmp = {}
    /\ backend = <<>>
    /\ outdir = <<>>
    /\ client = NoCall
    /\ NoRequest

NextDecode ==
    \/ \E token \in Tokens, id \in Ids : get_status(token, id)
    \/ \E i \in 1..MaxTasks :
          \/ Start(i) \/ Decode(i) \/ Stage(i) \/ Upload(i) \/ Queue(i) \/ Connect(i)
          \/ RecvError(i) \/ Settle(i) \/ Locate(i) \/ Complete(i) \/ Cleanup(i)
    \/ \E p \in 1..MaxTasks : Execute(p) \/ Save(p) \/ Finish(p)

SpecDecode == InitDecode /\ [][NextDecode]_vars

-----------------------------------------------------------------------------
(* Properties *)

Known == DOMAIN request_status

Terminal(st) == st \in {"completed", "error"}

Authorized(token) == validate_token(VALID_TOKENS, token)

AcceptedIds == {accepted[n][1] : n \in 1..Len(accepted)}

TasksOf(id) == {i \in 1..Len(tasks) : tasks[i].request_id = id}

\* what submit and poll answer in the current state
SubmitResponse(token, id) == generate_response(VALID_TOKENS, token, id)

PollResponse(token, id) == status_response(VALID_TOKENS, request_status, token, id)

\* C1: once a record is 'completed' or 'error', no step (submit, worker step,
\* poll) changes its status, message or model_url.
C1_TerminalRecordNeverChanges ==
    [][\A id \in Known :
          Terminal(request_status[id].status) => request_status'[id] = request_status[id]]_vars

ForwardMoves ==
    {<<"queued", "processing">>, <<"processing", "completed">>, <<"processing", "error">>}

\* C2: every change of a record's status is queued->processing,
\* processing->completed or processing->error.
C2_StatusOnlyMovesForward ==
    [][\A id \in Known :
          request_status'[id].status # request_status[id].status
          => <<request_status[id].status, request_status'[id].status>> \in ForwardMoves]_vars

\* C3: in every reachable state, a record's model_url is non-null if and only
\* if its status is 'completed'.
C3_ModelUrlIffCompleted ==
    \A id \in Known :
        (request_status[id].model_url # NoneSeq) <=> (request_status[id].status = "completed")

C3_Witness ==
    \E id \in Known :
        /\ request_status[id].status = "completed"
        /\ request_status[id].model_url = static \o Artifact(1)
        /\ \E other \in Known : request_status[other].status = "error"

\* C4 as stated: an authorized poll of an accepted id returns a record, and
\* until a worker of that id has finished the returned status is 'queued' or
\* 'processing'.
C4_PollBeforeWorkerFinishes ==
    \A token \in Tokens, id \in AcceptedIds :
        Authorized(token) =>
            /\ PollResponse(token, id).code = 200
            /\ (\A i \in TasksOf(id) : tasks[i].pc # "done")
               => PollResponse(token, id).status \in {"queued", "processing"}

\* C4 as amended: an authorized poll of an accepted id returns a record,
\* never 404, and as long as no worker of that id has written 'completed' or
\* 'error' (none is at or past its terminal write) the returned status is
\* 'queued' or 'processing'.
C4_PollBeforeTerminalWrite ==
    \A token \in Tokens, id \in AcceptedIds :
        Authorized(token) =>
            /\ PollResponse(token, id).code = 200
            /\ (\A i \in TasksOf(id) : tasks[i].pc \notin {"cleanup", "done"})
               => PollResponse(token, id).status \in {"queued", "processing"}

C4_Witness ==
    \E token \in Tokens, id \in AcceptedIds :
        /\ Authorized(token)
        /\ PollResponse(token, id).status = "processing"
        /\ \E i \in TasksOf(id) : tasks[i].pc = "recv"
        /\ \E other \in AcceptedIds : PollResponse(token, other).status = "error"

C6_BadTokenUnauthorized ==
    \A token \in Tokens, id \in Ids :
        token \notin VALID_TOKENS => SubmitResponse(token, id).code = 401

C6_Witness ==
    \E token \in Tokens :
        /\ token \notin VALID_TOKENS /\ VALID_TOKENS # {<<>>}
        /\ SubmitResponse(token, "").code = 401
        /\ SubmitResponse(token, "r2").code = 401
        /\ "r1" \in AcceptedIds

AuthTokens == SeqsUpTo(TokenAlphabet, MaxTokenLen)

\* C7: when VALID_TOKENS is unset or the empty string, every submit and every
\* poll is rejected with 401, for every bearer token, the empty one included.
C7_EmptyConfigRejectsAll ==
    environ \in {Unset, <<>>} =>
        \A token \in AuthTokens, id \in Ids :
            /\ SubmitResponse(token, id).code = 401
            /\ PollResponse(token, id).code = 401

Scheduled == [i \in 1..Len(tasks) |-> <<tasks[i].request_id, tasks[i].image_data>>]

\* C8: the step of an accepted submit(id, image) writes a 'queued' record for
\* id and adds one task, process_request(id, image), not yet started, to the
\* tasks scheduled so far, advancing no worker; the tasks scheduled are the
\* accepted submits, one each.
C8_AcceptedSubmitSchedulesOnce ==
    [][Len(accepted') > Len(accepted) =>
          LET id    == accepted'[Len(accepted')][1]
              image == accepted'[Len(accepted')][2]
          IN  /\ request_status'[id] = QueuedRecord
              /\ tasks' = Append(tasks, Task(id, image))
              /\ Scheduled' = accepted']_vars

C8_Witness ==
    /\ Len(accepted) = 2
    /\ tasks[1].pc = "recv"
    /\ tasks[2] = Task(accepted[2][1], accepted[2][2])
    /\ request_status[accepted[2][1]] = QueuedRecord

\* C9: a submit with an authorized token and an empty id answers 400.
C9_EmptyIdInvalidArgument ==
    \A token \in Tokens : Authorized(token) => SubmitResponse(token, "").code = 400

C9_Witness ==
    \E token \in Tokens :
        /\ Authorized(token)
        /\ SubmitResponse(token, "").code = 400
        /\ "" \notin Known
        /\ "r1" \in Known

\* the response of a poll of a known id is the record, field by field
Verbatim(token, id) ==
    /\ PollResponse(token, id).code = 200
    /\ PollResponse(token, id).status = request_status[id].status
    /\ PollResponse(token, id).message = request_status[id].message
    /\ PollResponse(token, id).model_url = request_status[id].model_url
    /\ PollResponse(token, id).request_id = id

\* C10: a poll changes neither request_status nor any worker, schedules
\* nothing, and for a known id returns the status, message and model_url of
\* the record as it is at the read.
C10_PollReadsOnly ==
    [][/\ \A token \in Tokens, id \in Known : Authorized(token) => Verbatim(token, id)
       /\ \A token \in Tokens, id \in Known' : Authorized(token)' => Verbatim(token, id)'
       /\ \A token \in Tokens, id \in Ids :
             get_status(token, id)
             => UNCHANGED <<request_status, tasks, tmp, backend, outdir>>]_vars

C10_Witness ==
    \E token \in Tokens, id \in Known :
        /\ Authorized(token)
        /\ PollResponse(token, id).status = "completed"
        /\ PollResponse(token, id).model_url = static \o Artifact(1)
        /\ \E i \in 1..Len(tasks) : tasks[i].pc = "recv"

-----------------------------------------------------------------------------
(* Properties of the worker *)

\* the steps of process_request and run_workflow that can raise
RaisingSteps ==
    {"decode", "stage", "upload", "queue", "connect", "recv", "locate", "cleanup"}

\* the step in which task i catches an exception
Raises(i) == tasks[i].exc = None /\ tasks'[i].exc # None

\* C11: the step in which a worker step fails (decode, staging, upload,
\* queue_prompt, completion wait, artifact location, temp-directory removal)
\* writes an 'error' record with a null model_url and the failure in the
\* message, ends the task normally and removes no temp directory; as long as
\* the id has no other worker the record stays that error record.
C11_FailureEndsInError ==
    [][\A i \in 1..Len(tasks) :
          LET id == tasks[i].request_id IN
          /\ Raises(i) =>
                /\ tasks[i].pc \in RaisingSteps
                /\ tasks'[i].pc = "done"
                /\ request_status'[id].status = "error"
                /\ request_status'[id].model_url = NoneSeq
                /\ request_status'[id].message
                      = "Failed to generate model: " \o tasks'[i].exc
                /\ tmp' = tmp
          /\ (tasks'[i].exc # None /\ Cardinality(TasksOf(id)') = 1) =>
                /\ request_status'[id].status = "error"
                /\ request_status'[id].model_url = NoneSeq
                /\ request_status'[id].message
                      = "Failed to generate model: " \o tasks'[i].exc]_vars

C11_Witness ==
    \E i, j \in 1..Len(tasks) :
        /\ tasks[i].exc = "Connection is already closed"
        /\ tasks[i].request_id \in tmp
        /\ request_status[tasks[i].request_id].status = "error"
        /\ tasks[j].exc = "Incorrect padding"
        /\ tasks[j].request_id \notin tmp
        /\ request_status[tasks[j].request_id].status = "error"

\* the step in which task i passes from pc a to pc b
Moves(i, a, b) == tasks[i].pc = a /\ tasks'[i].pc = b

\* the step in which the thread of task i executes a statement of its own
\* (a task leaves ws.recv() for the settle delay in the step of the backend
\* that emits its sentinel, which can release several waiting tasks at once)
Acts(i) == tasks'[i] # tasks[i] /\ ~Moves(i, "recv", "settle")

\* C12: a step of the worker of request id X, successful or failing, adds no
\* record, changes the record of no other id, and leaves the workers of
\* every other id where they are (not failed, not ended); no step that is not
\* a submit changes the record of an id none of whose workers moved.
C12_FailuresAreJobScoped ==
    [][/\ \A i \in 1..Len(tasks) :
             Acts(i) =>
                 LET X == tasks[i].request_id IN
                 /\ DOMAIN request_status' = DOMAIN request_status
                 /\ \A Y \in Known \ {X} : request_status'[Y] = request_status[Y]
                 /\ Len(tasks') = Len(tasks)
                 /\ \A j \in 1..Len(tasks) :
                       tasks[j].request_id # X => tasks'[j] = tasks[j]
       /\ accepted' = accepted =>
             \A Y \in Known :
                 request_status'[Y] # request_status[Y]
                 => \E i \in TasksOf(Y) : tasks'[i] # tasks[i]]_vars

C12_Witness ==
    \E i, j \in 1..Len(tasks) :
        /\ tasks[i].request_id # tasks[j].request_id
        /\ tasks[i].exc = "Failed to upload image to ComfyUI"
        /\ request_status[tasks[i].request_id].status = "error"
        /\ tasks[j].pc = "done" /\ tasks[j].exc = None
        /\ request_status[tasks[j].request_id].status = "completed"

\* C13: a worker whose steps all succeeded writes the 'completed' record with
\* model_url = "/static/" + the located relative path while its temp
\* directory is left alone; /tmp/<id> is removed only by a worker that has
\* made that update; the step that ends a worker successfully leaves no
\* /tmp/<id>, and the record of an id with a single worker is then the
\* 'completed' record.
C13_CompletedThenCleanup ==
    [][\A i \in 1..Len(tasks) :
          LET id   == tasks[i].request_id
              path == tasks'[i].model_relative_path
          IN
          /\ Moves(i, "locate", "complete") =>
                /\ path = find_latest(outdir, base_prefix)
                /\ \E k \in 1..Len(outdir) : outdir[k].name = path
          /\ (tasks[i].pc = "complete" /\ tasks'[i].pc # "complete") =>
                /\ tasks'[i].pc = "cleanup"
                /\ request_status'[id].status = "completed"
                /\ request_status'[id].model_url = static \o path
                /\ tmp' = tmp
          /\ (id \in tmp /\ id \notin tmp') =>
                \E j \in TasksOf(id) : Moves(j, "cleanup", "done") /\ tasks'[j].exc = None
          /\ (tasks[i].pc # "done" /\ tasks'[i].pc = "done" /\ tasks'[i].exc = None) =>
                /\ tasks[i].pc = "cleanup"
                /\ id \notin tmp'
          /\ (tasks'[i].pc = "done" /\ tasks'[i].exc = None
                 /\ Cardinality(TasksOf(id)') = 1) =>
                /\ request_status'[id].status = "completed"
                /\ request_status'[id].model_url = static \o path
                /\ id \notin tmp']_vars

C13_Witness ==
    \E i \in 1..Len(tasks) :
        /\ tasks[i].pc = "done" /\ tasks[i].exc = None
        /\ tasks[i].model_relative_path = Artifact(2)
        /\ request_status[tasks[i].request_id].model_url = static \o Artifact(2)
        /\ tasks[i].request_id \notin tmp

\* text messages the push channel can carry: execution events of every job,
\* with and without a node, and events of other types
Messages ==
    {Event(type, node, p) : type \in {"executing", "executed", "progress"},
                            node \in {None, "7"}, p \in 1..MaxTasks}

\* C14: a worker in the completion wait leaves it for the next step only in
\* the step in which the sentinel of its own prompt is emitted (otherwise it
\* stays, or the read raises); of all messages exactly the event of type
\* 'executing' with a null node and its own prompt id ends the wait, every
\* other message leaves the worker as it is.
C14_WaitEndsOnOwnSentinel ==
    [][\A i \in 1..Len(tasks) :
          /\ Moves(i, "recv", "settle") =>
                backend[i] # "finished" /\ backend'[i] = "finished"
          /\ (tasks[i].pc = "recv" /\ tasks'[i].pc # "recv") =>
                Moves(i, "recv", "settle") \/ Raises(i)
          /\ tasks[i].pc = "recv" =>
                \A m \in Messages :
                    IF m = Event("executing", None, i)
                    THEN recv(tasks[i], i, m).pc = "settle"
                    ELSE recv(tasks[i], i, m) = tasks[i]]_vars

C14_Witness ==
    /\ Len(tasks) = 2
    /\ tasks[1].pc = "recv" /\ backend[1] = "executing"
    /\ tasks[2].pc = "settle" /\ backend[2] = "finished"

\* C15: under fair scheduling, with a backend that finishes every prompt it
\* accepted, the record of every accepted job eventually is 'completed' or
\* 'error'.
C15_EveryJobTerminates ==
    \A i \in 1..MaxTasks :
        (i <= Len(tasks))
            ~> (i <= Len(tasks) /\ Terminal(request_status[tasks[i].request_id].status))

-----------------------------------------------------------------------------
(* Properties of the artifact search *)

\* the entries of a listing whose name has the prefix and ends in ".glb"
Matching(listing) ==
    {k \in 1..Len(listing) :
        startswith(listing[k].name, base_prefix) /\ endswith(listing[k].name, glb)}

\* the listings os.listdir can return for the content of this one
Orders(listing) ==
    LET n == Len(listing) IN
    {[k \in 1..n |-> listing[f[k]]] :
        f \in {g \in [1..n -> 1..n] : \A a, b \in 1..n : a # b => g[a] # g[b]}}

\* task i has searched the output directory
Searched(i) == tasks[i].pc \in {"complete", "cleanup", "done"}

\* C16: a worker that has searched the output directory holds a found file if
\* and only if some entry has the prefix and the ".glb" suffix, and the file
\* it holds is such an entry whose modification time is at least that of
\* every other such entry.
C16_LatestMatchingFile ==
    \A i \in 1..Len(tasks) :
        Searched(i) =>
            LET path == tasks[i].model_relative_path IN
            /\ (path = NoneSeq) <=> (Matching(outdir) = {})
            /\ path # NoneSeq =>
                  \E k \in Matching(outdir) :
                      /\ outdir[k].name = path
                      /\ \A j \in Matching(outdir) : outdir[k].mtime >= outdir[j].mtime

\* C17: the file a worker found is the file the search returns for every
\* other order in which the same entries can be listed.
C17_SearchIgnoresListingOrder ==
    \A i \in 1..Len(tasks) :
        Searched(i) =>
            \A listing \in Orders(outdir) :
                find_latest(listing, base_prefix) = tasks[i].model_relative_path

\* C18: the search of an output directory that is missing, empty or without
\* an entry with the prefix and ".glb" raises, the record becomes 'error',
\* and the record of that job is never 'completed'.
C18_NoArtifactEndsInError ==
    [][\A i \in 1..Len(tasks) :
          LET id == tasks[i].request_id IN
          Matching(outdir) = {} =>
              /\ (tasks[i].pc = "locate" /\ tasks'[i].pc # "locate") =>
                    /\ Raises(i)
                    /\ tasks'[i].exc \in {"Output directory not found",
                                         "Failed to generate 3D model"}
                    /\ tasks'[i].pc = "done"
                    /\ request_status'[id].status = "error"
              /\ request_status[id].status # "completed"
              /\ request_status'[id].status # "completed"]_vars

C18_Witness ==
    \E i \in 1..Len(tasks) :
        /\ Len(outdir) = 2 /\ Matching(outdir) = {}
        /\ tasks[i].exc = "Failed to generate 3D model"
        /\ request_status[tasks[i].request_id].status = "error"

-----------------------------------------------------------------------------
(* Properties of the writers of a record *)

\* the workers of id that have started and not ended
Running(id) == {i \in TasksOf(id) : tasks[i].pc \notin {"scheduled", "done"}}

\* C20: at every moment at most one worker is running for a request id, and
\* while it runs every change of that id's record is made by a step of that
\* worker (not by a submit, not by another worker).
C20_SingleWriterPerId ==
    [][\A id \in Known :
          /\ Cardinality(Running(id)) <= 1
          /\ \A i \in Running(id) :
                request_status'[id] # request_status[id] => tasks'[i] # tasks[i]]_vars

-----------------------------------------------------------------------------
(* Properties of generate_3d *)

\* the call has returned or raised
Ended == client.pc \in {"returned", "raised"}

\* the step is a status poll of the call
Polls == client'.polls = client.polls + 1

\* C19: generate_3d terminates; it polls only after an accepted submission and
\* at most max_retries = 60 times; the poll that observes 'completed' returns,
\* the poll that observes 'error' raises 'Generation failed', every other
\* poll goes on; it raises TimeoutError only after the 60th poll; and once it
\* has returned or raised it does nothing more.
C19_PollLoopTerminates ==
    /\ <>Ended
    /\ [][/\ client.polls <= max_retries /\ client'.polls <= max_retries
          /\ client'.polls # client.polls => Polls /\ client.request_id \in AcceptedIds
          /\ Polls =>
                /\ client.pc = "poll"
                /\ client'.observed = "completed" <=> client'.pc = "returned"
                /\ client'.observed = "error" <=>
                      (client'.pc = "raised" /\ client'.exc # "TimeoutError")
                /\ client'.observed \notin {"completed", "error"} => client'.pc = "poll"
                /\ client'.observed \in
                      {"HTTPError", PollResponse(MODEL_GENERATOR_TOKEN, client.request_id).status}
          /\ (client.exc = None /\ client'.exc = "TimeoutError") =>
                /\ client.polls = max_retries
                /\ client.observed \notin {"completed", "error"}
                /\ client'.pc = "raised"
          /\ Ended => client' = client]_vars

C19_Witness ==
    /\ client.exc = "TimeoutError"
    /\ client.polls = max_retries
    /\ client.observed = "processing"
    /\ \E i \in TasksOf(client.request_id) : tasks[i].pc = "recv"

-----------------------------------------------------------------------------
(* Properties of the table and of the handlers' responses *)

\* C21: no step removes a request id from request_status, and an authorized
\* poll of an id that is known before a step answers with a record after it.
C21_KnownIdsOnlyGrow ==
    [][/\ DOMAIN request_status \subseteq DOMAIN request_status'
       /\ LET valid == VALID_TOKENS IN
          \A token \in Tokens \cap valid, id \in Known :
              status_response(valid, request_status', token, id).code = 200]_vars

C21_Witness ==
    /\ Known = {"r1", "r2"}
    /\ \A id \in Known : Terminal(request_status[id].status)
    /\ \A i \in 1..Len(tasks) : tasks[i].pc = "done"
    /\ \E token \in Tokens : \A id \in Known : PollResponse(token, id).code = 200

C24_SubmitAnswersProcessing ==
    \A token \in Tokens, id \in Ids \ {""} :
        Authorized(token) =>
            /\ SubmitResponse(token, id).code = 200
            /\ SubmitResponse(token, id).status = "processing"
            /\ SubmitResponse(token, id).request_id = id

\* C25: GET /status/{id} with a valid token, for an id that no submit made a
\* record for and with an empty output directory, answers 200 with status
\* 'processing' and the queried id.
C25_UnknownIdAnswersProcessing ==
    \A token \in Tokens, id \in (Ids \ {""}) \ Known :
        (Authorized(token) /\ outdir = <<>>) =>
            /\ PollResponse(token, id).code = 200
            /\ PollResponse(token, id).status = "processing"
            /\ PollResponse(token, id).request_id = id

-----------------------------------------------------------------------------
(* Properties of the payload decoding *)

\* base64 as RFC 4648 defines it: quads of alphabet characters, the last quad
\* padded with one or two "="
WellFormed(s) ==
    LET n == Len(s) IN
    /\ n % 4 = 0
    /\ \A k \in 1..n : s[k] \in Base64Alphabet \/ (s[k] = "=" /\ k >= n - 1)
    /\ n > 0 => (s[n - 1] = "=" => s[n] = "=")

\* C23: a submit whose image is malformed base64 is accepted; once its worker
\* is past the decode it has ended with a decode failure: the record is
\* 'error' with the decode message, nothing was staged in /tmp (and nothing
\* removed), no prompt was queued, and an authorized poll returns that record.
C23_MalformedPayloadEndsInDecodeError ==
    \A i \in 1..Len(tasks) :
        LET id == tasks[i].request_id IN
        ~WellFormed(tasks[i].image_data) =>
            /\ id \in AcceptedIds
            /\ tasks[i].pc \notin {"scheduled", "decode"} =>
                  /\ tasks[i].pc = "done"
                  /\ tasks[i].exc = "Incorrect padding"
                  /\ request_status[id] = ErrorRecord("Incorrect padding")
                  /\ id \notin tmp
                  /\ i \notin DOMAIN backend
                  /\ PollResponse(<<"a">>, id).status = "error"

-----------------------------------------------------------------------------
(* Properties of the order of the worker's steps *)

\* the statements of process_request and run_workflow, in the order of the text
Order ==
    <<"scheduled", "decode", "stage", "upload", "queue", "connect", "recv",
      "settle", "locate", "complete", "cleanup", "done">>

Position(pc) == CHOOSE k \in 1..Len(Order) : Order[k] = pc

\* C26: a worker passes from each step only to the next one of the order
\* (processing mark, decode, staging, upload, queue_prompt, connect and wait,
\* settle delay, artifact search, completed mark, cleanup), or from a step
\* that can raise to its end with the exception; the processing mark is the
\* first step and cannot raise; and the visible effect of each step happens
\* in that step and in no other.
C26_StepsInOrder ==
    [][\A i \in 1..Len(tasks) :
          LET id == tasks[i].request_id IN
          /\ tasks'[i].pc # tasks[i].pc =>
                \/ /\ Position(tasks'[i].pc) = Position(tasks[i].pc) + 1
                   /\ tasks'[i].exc = None
                \/ /\ Raises(i)
                   /\ tasks[i].pc \in RaisingSteps
                   /\ tasks'[i].pc = "done"
          /\ tasks[i].pc = "scheduled" => ~Raises(i)
          /\ Moves(i, "scheduled", "decode") => request_status'[id] = ProcessingRecord
          /\ Moves(i, "stage", "upload") => id \in tmp'
          /\ (i \notin DOMAIN backend /\ i \in DOMAIN backend') <=> Moves(i, "queue", "connect")
          /\ (~tasks[i].ws /\ tasks'[i].ws) <=> Moves(i, "connect", "recv")
          /\ Moves(i, "recv", "settle") => backend'[i] = "finished"
          /\ Moves(i, "locate", "complete") => tasks'[i].model_relative_path # NoneSeq
          /\ Moves(i, "complete", "cleanup") => request_status'[id].status = "completed"
          /\ (Moves(i, "cleanup", "done") /\ ~Raises(i)) => (id \in tmp /\ id \notin tmp')]_vars

C26_Witness ==
    \E i, j \in 1..Len(tasks) :
        /\ tasks[i].pc = "done" /\ tasks[i].exc = None
        /\ backend[i] = "finished"
        /\ tasks[j].exc = "ComfyUI server is not available"
        /\ j \notin DOMAIN backend
        /\ tasks[j].request_id \in tmp

-----------------------------------------------------------------------------
(* Properties of concurrent jobs *)

\* the artifact task i recorded, or NoneSeq
Recorded(i) == tasks[i].model_relative_path

\* C28: two jobs of distinct request ids never record the same artifact file
\* (every file is written by the run of one prompt, so two jobs that record
\* one file include a job that records a file of another job's run).
C28_ArtifactsAreNotShared ==
    \A i, j \in 1..Len(tasks) :
        (tasks[i].request_id # tasks[j].request_id /\ Recorded(i) # NoneSeq)
        => Recorded(i) # Recorded(j)

\* C29: a step that changes a record without any worker moving, or that
\* schedules a worker, is an accepted submit: of a non-empty id, with a
\* token of the allow-set; a rejected submit (401 or 400) is no such step.
C29_RejectedSubmitChangesNothing ==
    [][((request_status' # request_status /\ \A i \in 1..Len(tasks) : tasks'[i] = tasks[i])
          \/ Len(tasks') # Len(tasks)) =>
          /\ Len(accepted') = Len(accepted) + 1
          /\ LET id    == accepted'[Len(accepted')][1]
                 valid == VALID_TOKENS
             IN  /\ id # ""
                 /\ \E token \in Tokens \cap valid :
                       generate_response(valid, token, id).code = 200
                 /\ \A token \in Tokens \ valid :
                       generate_response(valid, token, id).code = 401]_vars

C29_Witness ==
    \E good, bad \in Tokens :
        /\ SubmitResponse(bad, "r1").code = 401
        /\ SubmitResponse(good, "").code = 400
        /\ Known = {"r1"} /\ Len(tasks) = 1
        /\ request_status["r1"].status = "completed"

-----------------------------------------------------------------------------
(* Properties of the results of generate_3d *)

\* the record of the call's own job, as the server holds it
Own == request_status[client.request_id]

\* C27: the step in which generate_3d returns is a poll at which the record
\* of its own request id is 'completed', and the url it returns is that
\* record's model_url with "/static/" turned into "/output/"; the step in
\* which it raises 'Generation failed' is a poll at which its own record is
\* 'error'; a call whose polls observed only queued, processing, error or a
\* failure holds no url.
C27_ResultFollowsObservedStatus ==
    [][/\ (client.pc # "returned" /\ client'.pc = "returned") =>
             /\ Polls
             /\ Own.status = "completed"
             /\ client'.model_url = to_output(Own.model_url)
             /\ "completed" \in client'.seen
       /\ (client.exc = None /\ client'.exc \notin {None, "HTTPError", "TimeoutError"}) =>
             /\ Polls
             /\ Own.status = "error"
             /\ client'.exc = "Generation failed: " \o Own.message
             /\ "error" \in client'.seen
       /\ client'.model_url # NoneSeq => client'.pc = "returned"
       /\ "completed" \notin client'.seen =>
             client'.model_url = NoneSeq /\ client'.pc # "returned"]_vars

C27_Witness ==
    /\ client.pc = "returned"
    /\ client.model_url = output \o Artifact(2)
    /\ client.seen = {"HTTPError", "queued", "processing", "completed"}
    /\ "r2" \in Known

\* responses of a poll that failed: no connection, 401, 404
FailedPolls ==
    {ConnectError, Unauthorized,
     HTTPException(404, "Request ID " \o client.request_id \o " not found")}

\* C30: a poll that fails with a transport or HTTP error (a 404 included)
\* leaves the call in the loop with one more of its 60 attempts used and
\* nothing raised; a call that has ended after polls that all failed has
\* raised TimeoutError after exactly 60 polls.
C30_FailedPollsAreRetried ==
    [][/\ client.pc = "poll" =>
             \A r \in FailedPolls :
                 after_poll(client, r) =
                     [client EXCEPT !.polls = @ + 1, !.observed = "HTTPError",
                                    !.seen = @ \cup {"HTTPError"}]
       /\ (Polls /\ client'.observed = "HTTPError") =>
             /\ client'.pc = "poll" /\ client'.exc = None
             /\ client'.polls <= max_retries
       /\ (client'.pc \in {"returned", "raised"} /\ client'.seen = {"HTTPError"}) =>
             /\ client'.exc = "TimeoutError"
             /\ client'.polls = max_retries]_vars

C30_Witness ==
    /\ client.exc = "TimeoutError"
    /\ client.seen = {"HTTPError"}
    /\ client.polls = max_retries
    /\ client.request_id \in Known /\ Own.status = "completed"

-----------------------------------------------------------------------------
(* Properties of POST /api/generate *)

\* the handler of /api/generate gives its response in this step
Responds == endpoint.pc = "generating" /\ endpoint'.pc = "done"

\* C31: when generate_3d has raised (the submission failed, a poll observed
\* 'error', or the 60 polls ran out), the response of /api/generate is a 500
\* carrying the exception's text, the uploaded file is no longer in the upload
\* directory and no Model3D row is added; a row is added only in the response
\* to a generate_3d that returned a model url, and it holds that url and the
\* path of the upload, which is kept.
C31_FailureCleansUpAndCreatesNothing ==
    [][/\ Responds => client.pc \in {"returned", "raised"} /\ client' = client
       /\ (Responds /\ client.pc = "raised") =>
             /\ \/ client.exc \in {"HTTPError", "TimeoutError"}
                \/ /\ client.request_id \in Known
                   /\ client.exc = "Generation failed: " \o Own.message
             /\ endpoint'.response = HTTPException(500, client.exc)
             /\ endpoint.file_path \in UPLOAD_DIR
             /\ endpoint.file_path \notin UPLOAD_DIR'
             /\ db' = db
       /\ db' # db =>
             /\ Responds
             /\ client.pc = "returned" /\ client.model_url # NoneSeq
             /\ db' = Append(db, Model3D(endpoint.file_path, client.model_url))
             /\ endpoint.file_path \in UPLOAD_DIR'
             /\ endpoint'.response.code = 201
       /\ (endpoint'.pc = "done" /\ client'.pc = "raised") =>
             db' = <<>> /\ UPLOAD_DIR' = {} /\ endpoint'.response.code = 500]_vars

C31_Witness ==
    /\ endpoint.pc = "done"
    /\ client.request_id \in Known
    /\ client.exc = "Generation failed: " \o Own.message
    /\ endpoint.response = HTTPException(500, client.exc)
    /\ UPLOAD_DIR = {}
    /\ db = <<>>

====
